---- MODULE Spec2Model ----
(***************************************************************************)
(* Order creation, order status and payment reconciliation of the          *)
(* bookstore backend (services/orderService.js, services/paymentService.js *)
(* and services/cartService.js).  Every handler is an async function: each  *)
(* `await` on a database call is a point where another request may run, so  *)
(* a handler is modelled as the sequence of its database calls, and a       *)
(* request is a process whose position is pc[p].                            *)
(*                                                                         *)
(* Money is counted in cents, timestamps are readings of the clock `now`,   *)
(* 0 stands for null in numeric columns.                                    *)
(***************************************************************************)
EXTENDS Integers, Sequences, FiniteSets, TLC

\* ------------------------------------------------------------------ bounds
MaxQty    == 2      \* largest quantity of one cart line
MaxOrders == 2      \* rows the orders table may hold
MaxTime   == 2      \* last reading of the clock
MaxAdminOrders == 1 \* orders placed while the admin is at work
MaxPayments == 2    \* rows the payments table may hold
MaxStock  == 2      \* no stock is released beyond this quantity

\* ------------------------------------------------------------- the catalog
Books     == {"A", "B"}
BookOrder == <<"A", "B">>                 \* row order of a findAll
Users     == {"u1", "u2"}
Procs     == {"r1", "r2"}                 \* requests in flight
InitStock == [b \in Books |-> IF b = "A" THEN 2 ELSE 1]
Prices    == {1000, 2500}
InitPrice == [b \in Books |-> IF b = "A" THEN 1000 ELSE 2500]

OrderStatuses == {"pending", "processing", "shipped", "delivered", "cancelled"}
PaymentStatuses == {"pending", "completed", "failed", "refunded"}
\* Transaction references a customer may submit with a wallet payment: a
\* reference of the wallet provider, or the id of the gateway's first intent.
WalletRefs == {1, 101}

VARIABLES
    stock,        \* Book.stock                       [Books -> Int]
    price,        \* Book.price                       [Books -> Prices]
    cart,         \* CartItem rows, 0 = no row        [Users -> [Books -> 0..MaxQty]]
    orders,       \* Order rows, id = index           Seq(record)
    orderItems,   \* OrderItem rows                   set of records
    payments,     \* Payment rows, id = index         Seq(record)
    intents,      \* the gateway's payment intents, id = index, each with
                  \* the orderId of its metadata      Seq(order id)
    advances,     \* history: how often a "payment succeeded" delivery has
                  \* moved each order to processing   [order id -> 0..2]
    now,          \* the clock read by new Date()
    pc,           \* position of each request         [Procs -> STRING]
    loc           \* local variables of each request, and at "done" what
                  \* it returned or threw             [Procs -> record]

shop == <<stock, price, cart, orders, orderItems>>
pay  == <<payments, intents, advances>>
db   == <<shop, pay>>
vars == <<stock, price, cart, orders, orderItems, payments, intents, advances,
          now, pc, loc>>

NoLoc == [op |-> "none", userId |-> "none", lines |-> <<>>, total |-> 0,
          orderId |-> 0, i |-> 0, status |-> "none", newStatus |-> "none",
          stamp |-> 0, payId |-> 0, ref |-> 0, sigOk |-> TRUE, full |-> FALSE,
          gatewayOk |-> TRUE]
\* The response of a finished request: its kind ("ok" or the failure), and
\* what the failure names.
NoRes == [kind |-> "none", op |-> "none", userId |-> "none", item |-> "none",
          available |-> 0, orderId |-> 0, ref |-> 0, sigOk |-> TRUE,
          payId |-> 0, gatewayOk |-> TRUE]

Init ==
    /\ stock = InitStock
    /\ price = InitPrice
    /\ cart = [u \in Users |-> [b \in Books |-> 0]]
    /\ orders = <<>>
    /\ orderItems = {}
    /\ payments = <<>>
    /\ intents = <<>>
    /\ advances = [o \in 1..MaxOrders |-> 0]
    /\ now = 1
    /\ pc = [p \in Procs |-> "idle"]
    /\ loc = [p \in Procs |-> NoLoc]

\* ---------------------------------------------------------------- helpers
RECURSIVE SumSeq(_)
SumSeq(s) == IF s = <<>> THEN 0 ELSE Head(s) + SumSeq(Tail(s))

\* CartItem.findAll({where: {userId}, include: Book}): the user's cart lines,
\* each joined to the book's price and stock at the time of the read.
CartLines(u) ==
    LET bs == SelectSeq(BookOrder, LAMBDA b : cart[u][b] > 0)
    IN  [k \in 1..Len(bs) |->
            [bookId |-> bs[k], quantity |-> cart[u][bs[k]],
             stock |-> stock[bs[k]], price |-> price[bs[k]]]]

\* The first line, in loop order, that the stock check rejects; 0 if none.
FirstInsufficientMutant(lines) ==
    IF Len(lines) > 0 /\ lines[1].stock < lines[1].quantity THEN 1 ELSE 0
FirstInsufficient(lines) ==
    LET bad == {k \in 1..Len(lines) : lines[k].stock < lines[k].quantity}
    IN  IF bad = {} THEN 0 ELSE CHOOSE k \in bad : \A j \in bad : k <= j

\* totalAmount accumulated by the loop: sum of price * quantity.
TotalOfMutant(lines) == SumSeq([k \in 1..Len(lines) |-> lines[k].price])
TotalOf(lines) == SumSeq([k \in 1..Len(lines) |-> lines[k].price * lines[k].quantity])

\* OrderItem.findAll({where: {orderId}}) as a sequence of rows.
ItemsOf(o) ==
    LET bs == SelectSeq(BookOrder,
                LAMBDA b : \E it \in orderItems : it.orderId = o /\ it.bookId = b)
    IN  [k \in 1..Len(bs) |->
            CHOOSE it \in orderItems : it.orderId = o /\ it.bookId = bs[k]]

\* The handler returns or throws r: the response is sent.
Finish(p, r) ==
    /\ pc' = [pc EXCEPT ![p] = "done"]
    /\ loc' = [loc EXCEPT ![p] = r]

Goto(p, label, l) ==
    /\ pc' = [pc EXCEPT ![p] = label]
    /\ loc' = [loc EXCEPT ![p] = l]

\* The connection is free for the next request.
Return(p) ==
    /\ pc[p] = "done"
    /\ pc' = [pc EXCEPT ![p] = "idle"]
    /\ loc' = [loc EXCEPT ![p] = NoLoc]
    /\ UNCHANGED <<stock, price, cart, orders, orderItems, pay, now>>

\* Releasing the stock of order o keeps every book within MaxStock.
StockRoom(o) ==
    \A it \in orderItems :
        it.orderId = o => stock[it.bookId] + it.quantity <= MaxStock

\* Order rows that exist or are about to be inserted by a request in flight.
OrdersCommitted == Len(orders) + Cardinality({p \in Procs : pc[p] = "co_order"})

\* ------------------------------------------------------------ environment
\* new Date() advances between calls.
Tick ==
    /\ now < MaxTime
    /\ now' = now + 1
    /\ UNCHANGED <<db, pc, loc>>

\* CartService.addToCart: rejects a quantity the stock does not cover.
AddToCart(u, b, q) ==
    /\ stock[b] >= cart[u][b] + q
    /\ cart[u][b] + q <= MaxQty
    /\ cart' = [cart EXCEPT ![u][b] = @ + q]
    /\ UNCHANGED <<stock, price, orders, orderItems, pay, now, pc, loc>>

\* BookService.updateBook: an admin changes a catalog price.
SetPrice(b, v) ==
    /\ price[b] # v
    /\ price' = [price EXCEPT ![b] = v]
    /\ UNCHANGED <<stock, cart, orders, orderItems, pay, now, pc, loc>>

\* ------------------------------------------------ OrderService.createOrder
\* findAll of the cart, then the validation loop (no await in between).
CO_Begin(p, u) ==
    /\ pc[p] = "idle"
    /\ OrdersCommitted < MaxOrders
    /\ LET lines == CartLines(u)
           bad   == FirstInsufficient(lines)
       IN  IF Len(lines) = 0
           THEN Finish(p, [NoRes EXCEPT !.kind = "EmptyCart", !.op = "createOrder",
                                        !.userId = u])
           ELSE IF bad # 0
           THEN Finish(p, [NoRes EXCEPT !.kind = "InsufficientStock",
                                        !.op = "createOrder", !.userId = u,
                                        !.item = lines[bad].bookId,
                                        !.available = lines[bad].stock])
           ELSE Goto(p, "co_order",
                     [NoLoc EXCEPT !.op = "createOrder", !.userId = u,
                                   !.lines = lines, !.total = TotalOf(lines)])
    /\ UNCHANGED <<db, now>>

\* Order.create
CO_CreateOrder(p) ==
    /\ pc[p] = "co_order"
    /\ orders' = Append(orders,
                   [userId |-> loc[p].userId, status |-> "pending",
                    totalAmount |-> loc[p].total,
                    shippedAt |-> 0, deliveredAt |-> 0, cancelledAt |-> 0])
    /\ Goto(p, "co_items", [loc[p] EXCEPT !.orderId = Len(orders) + 1, !.i = 1])
    /\ UNCHANGED <<stock, price, cart, orderItems, pay, now>>

\* OrderItem.create, one per entry of orderItemsData
CO_CreateItem(p) ==
    /\ pc[p] = "co_items"
    /\ LET l == loc[p].lines[loc[p].i]
       IN  orderItems' = orderItems \cup
               {[orderId |-> loc[p].orderId, bookId |-> l.bookId,
                 quantity |-> l.quantity, price |-> l.price]}
    /\ IF loc[p].i < Len(loc[p].lines)
       THEN Goto(p, "co_items", [loc[p] EXCEPT !.i = @ + 1])
       ELSE Goto(p, "co_stock", [loc[p] EXCEPT !.i = 1])
    /\ UNCHANGED <<stock, price, cart, orders, pay, now>>

\* Book.decrement('stock', {by: quantity}): UPDATE stock = stock - quantity.
Decremented(s, b, q) == [s EXCEPT ![b] = @ - q]

CO_Decrement(p) ==
    /\ pc[p] = "co_stock"
    /\ LET l == loc[p].lines[loc[p].i]
       IN  stock' = Decremented(stock, l.bookId, l.quantity)
    /\ IF loc[p].i < Len(loc[p].lines)
       THEN Goto(p, "co_stock", [loc[p] EXCEPT !.i = @ + 1])
       ELSE Goto(p, "co_cart", [loc[p] EXCEPT !.i = 0])
    /\ UNCHANGED <<price, cart, orders, orderItems, pay, now>>

\* CartItem.destroy({where: {userId}}): the rows of user u are deleted.
ClearedMutant(c, u) == [v \in Users |-> [b \in Books |-> 0]]
Cleared(c, u) == [c EXCEPT ![u] = [b \in Books |-> 0]]

CO_ClearCart(p) ==
    /\ pc[p] = "co_cart"
    /\ cart' = Cleared(cart, loc[p].userId)
    /\ Goto(p, "co_mail", loc[p])
    /\ UNCHANGED <<stock, price, orders, orderItems, pay, now>>

\* findByPk of the order, then emailService.sendOrderConfirmation, which
\* rethrows when the mail cannot be sent.
CO_Mail(p, sent) ==
    /\ pc[p] = "co_mail"
    /\ Finish(p, [NoRes EXCEPT !.kind = IF sent THEN "ok" ELSE "MailError",
                               !.op = "createOrder", !.userId = loc[p].userId,
                               !.orderId = loc[p].orderId])
    /\ UNCHANGED <<db, now>>

\* ------------------------------------------------ OrderService.cancelOrder
\* The statuses in which the findOne of cancelOrder finds the order.
CancellableMutant == {"pending", "processing", "shipped"}
Cancellable == {"pending", "processing"}

\* Order.findOne({id, userId, status in (pending, processing)}, include items)
CA_Begin(p, u, o) ==
    /\ pc[p] = "idle"
    /\ StockRoom(o)
    /\ IF /\ o \in 1..Len(orders)
          /\ orders[o].userId = u
          /\ orders[o].status \in Cancellable
       THEN Goto(p, IF ItemsOf(o) = <<>> THEN "ca_update" ELSE "ca_stock",
                 [NoLoc EXCEPT !.op = "cancelOrder", !.userId = u,
                               !.orderId = o, !.lines = ItemsOf(o), !.i = 1])
       ELSE Finish(p, [NoRes EXCEPT !.kind = "NotFoundOrNotCancellable",
                                    !.op = "cancelOrder", !.userId = u,
                                    !.orderId = o])
    /\ UNCHANGED <<db, now>>

\* Book.increment('stock', {by: quantity}): UPDATE stock = stock + quantity.
IncrementedMutant(s, b, q) == [s EXCEPT ![b] = @ + 1]
Incremented(s, b, q) == [s EXCEPT ![b] = @ + q]

CA_Increment(p) ==
    /\ pc[p] = "ca_stock"
    /\ LET l == loc[p].lines[loc[p].i]
       IN  stock' = Incremented(stock, l.bookId, l.quantity)
    /\ IF loc[p].i < Len(loc[p].lines)
       THEN Goto(p, "ca_stock", [loc[p] EXCEPT !.i = @ + 1])
       ELSE Goto(p, "ca_update", [loc[p] EXCEPT !.i = 0])
    /\ UNCHANGED <<price, cart, orders, orderItems, pay, now>>

\* order.update({status: 'cancelled', cancelledAt: new Date()})
CA_Update(p) ==
    /\ pc[p] = "ca_update"
    /\ orders' = [orders EXCEPT ![loc[p].orderId] =
                     [@ EXCEPT !.status = "cancelled", !.cancelledAt = now]]
    /\ Finish(p, [NoRes EXCEPT !.kind = "ok", !.op = "cancelOrder",
                               !.userId = loc[p].userId,
                               !.orderId = loc[p].orderId])
    /\ UNCHANGED <<stock, price, cart, orderItems, pay, now>>

\* ------------------------------------------ OrderService.updateOrderStatus
\* Order.findByPk, then updateData is built from the row just read.
UO_Begin(p, o, ns) ==
    /\ pc[p] = "idle"
    /\ ns = "cancelled" => StockRoom(o)
    /\ IF o \in 1..Len(orders)
       THEN Goto(p, IF ns = "cancelled" /\ orders[o].status # "cancelled"
                    THEN "uo_find" ELSE "uo_update",
                 [NoLoc EXCEPT !.op = "updateOrderStatus", !.orderId = o,
                               !.status = orders[o].status, !.newStatus = ns,
                               !.stamp = now])
       ELSE Finish(p, [NoRes EXCEPT !.kind = "NotFound", !.op = "updateOrderStatus"])
    /\ UNCHANGED <<db, now>>

\* OrderItem.findAll({where: {orderId}})
UO_FindItems(p) ==
    /\ pc[p] = "uo_find"
    /\ Goto(p, IF ItemsOf(loc[p].orderId) = <<>> THEN "uo_update" ELSE "uo_stock",
            [loc[p] EXCEPT !.lines = ItemsOf(loc[p].orderId), !.i = 1])
    /\ UNCHANGED <<db, now>>

\* Book.increment for each item of the cancelled order
UO_Increment(p) ==
    /\ pc[p] = "uo_stock"
    /\ LET l == loc[p].lines[loc[p].i]
       IN  stock' = Incremented(stock, l.bookId, l.quantity)
    /\ IF loc[p].i < Len(loc[p].lines)
       THEN Goto(p, "uo_stock", [loc[p] EXCEPT !.i = @ + 1])
       ELSE Goto(p, "uo_update", [loc[p] EXCEPT !.i = 0])
    /\ UNCHANGED <<price, cart, orders, orderItems, pay, now>>

\* updateData: the new status and the timestamp of the branch taken.
UpdateData(row, old, ns, t) ==
    LET r1 == IF ns # old THEN [row EXCEPT !.status = ns] ELSE row
    IN  IF ns = "shipped" /\ old # "shipped" THEN [r1 EXCEPT !.shippedAt = t]
        ELSE IF ns = "delivered" /\ old # "delivered" THEN [r1 EXCEPT !.deliveredAt = t]
        ELSE IF ns = "cancelled" /\ old # "cancelled" THEN [r1 EXCEPT !.cancelledAt = t]
        ELSE r1

\* order.update(updateData): the fields that differ from the row as read.
UO_Update(p) ==
    /\ pc[p] = "uo_update"
    /\ orders' = [orders EXCEPT ![loc[p].orderId] =
                     UpdateData(@, loc[p].status, loc[p].newStatus, loc[p].stamp)]
    /\ Goto(p, "uo_mail", loc[p])
    /\ UNCHANGED <<stock, price, cart, orderItems, pay, now>>

\* emailService.sendOrderStatusUpdate
UO_Mail(p, sent) ==
    /\ pc[p] = "uo_mail"
    /\ Finish(p, [NoRes EXCEPT !.kind = IF sent THEN "ok" ELSE "MailError",
                               !.op = "updateOrderStatus",
                               !.orderId = loc[p].orderId])
    /\ UNCHANGED <<db, now>>

\* ----------------------------------------- AdminService.updateOrderStatus
\* Order.findByPk; a missing order throws 'Order not found'.
AS_Begin(p, o, ns) ==
    /\ pc[p] = "idle"
    /\ IF o \in 1..Len(orders)
       THEN Goto(p, "as_update",
                 [NoLoc EXCEPT !.op = "adminUpdateOrderStatus", !.orderId = o,
                               !.status = orders[o].status, !.newStatus = ns])
       ELSE Finish(p, [NoRes EXCEPT !.kind = "NotFound",
                                    !.op = "adminUpdateOrderStatus", !.orderId = o])
    /\ UNCHANGED <<db, now>>

\* order.update({status}): the status and nothing else.
AS_Update(p) ==
    /\ pc[p] = "as_update"
    /\ orders' = [orders EXCEPT ![loc[p].orderId].status = loc[p].newStatus]
    /\ Finish(p, [NoRes EXCEPT !.kind = "ok", !.op = "adminUpdateOrderStatus",
                               !.orderId = loc[p].orderId])
    /\ UNCHANGED <<stock, price, cart, orderItems, pay, now>>

\* ------------------------------- orderController.updateOrderStatus (legacy)
\* Order.findByPk(req.params.id); 404 when there is no such order.
OC_Begin(p, o, ns) ==
    /\ pc[p] = "idle"
    /\ IF o \in 1..Len(orders)
       THEN Goto(p, "oc_save",
                 [NoLoc EXCEPT !.op = "legacyUpdateOrderStatus", !.orderId = o,
                               !.status = orders[o].status, !.newStatus = ns])
       ELSE Finish(p, [NoRes EXCEPT !.kind = "NotFound",
                                    !.op = "legacyUpdateOrderStatus", !.orderId = o])
    /\ UNCHANGED <<db, now>>

\* order.status = status; order.save()
OC_Save(p) ==
    /\ pc[p] = "oc_save"
    /\ orders' = [orders EXCEPT ![loc[p].orderId].status = loc[p].newStatus]
    /\ Finish(p, [NoRes EXCEPT !.kind = "ok", !.op = "legacyUpdateOrderStatus",
                               !.orderId = loc[p].orderId])
    /\ UNCHANGED <<stock, price, cart, orderItems, pay, now>>

\* ================================================== PaymentService
\* Order.findOne({id, userId, status: not cancelled})
PayableOrderMutant(o, u) ==
    /\ o \in 1..Len(orders)
    /\ orders[o].userId = u
PayableOrder(o, u) ==
    /\ o \in 1..Len(orders)
    /\ orders[o].userId = u
    /\ orders[o].status # "cancelled"

\* Payment.findOne({orderId, status in sts}) found a row
HasPaymentMutant(o, sts) ==
    \E k \in 1..Len(payments) : payments[k].orderId = o /\ payments[k].status = "completed"
HasPayment(o, sts) ==
    \E k \in 1..Len(payments) : payments[k].orderId = o /\ payments[k].status \in sts

NewPayment(o, u, method, ref, st, date) ==
    [orderId |-> o, userId |-> u, paymentMethod |-> method,
     amount |-> orders[o].totalAmount, transactionId |-> ref, status |-> st,
     paymentDate |-> date, cardLastFour |-> 0]

\* order.update({status: 'processing'}) on the row just read
ToProcessing(o) == [orders EXCEPT ![o].status = "processing"]

\* await stripe...create(...): a call the gateway fails throws, and nothing
\* after it in the function runs.
ThrowsMutant(gatewayOk) == FALSE
Throws(gatewayOk) == ~gatewayOk

\* createPaymentIntent: the gateway creates the intent, then the Payment row
\* is inserted as pending with the intent's id.
CreatePaymentIntent(p, o, u, gatewayOk) ==
    /\ pc[p] = "idle"
    /\ Len(payments) < MaxPayments
    /\ IF ~PayableOrder(o, u)
       THEN /\ Finish(p, [NoRes EXCEPT !.kind = "OrderNotFound", !.op = "createPaymentIntent",
                                       !.userId = u, !.orderId = o,
                                       !.gatewayOk = gatewayOk])
            /\ UNCHANGED <<payments, intents>>
       ELSE IF HasPayment(o, {"completed"})
       THEN /\ Finish(p, [NoRes EXCEPT !.kind = "DuplicateCompletedPayment",
                                       !.op = "createPaymentIntent",
                                       !.userId = u, !.orderId = o,
                                       !.gatewayOk = gatewayOk])
            /\ UNCHANGED <<payments, intents>>
       ELSE IF Throws(gatewayOk)
       THEN /\ Finish(p, [NoRes EXCEPT !.kind = "GatewayError", !.op = "createPaymentIntent",
                                       !.userId = u, !.orderId = o,
                                       !.gatewayOk = gatewayOk])
            /\ UNCHANGED <<payments, intents>>
       ELSE /\ intents' = Append(intents, o)
            /\ payments' = Append(payments,
                   NewPayment(o, u, "credit_card", Len(intents) + 1, "pending", 0))
            /\ Finish(p, [NoRes EXCEPT !.kind = "ok", !.op = "createPaymentIntent",
                                       !.userId = u, !.orderId = o,
                                       !.gatewayOk = gatewayOk])
    /\ UNCHANGED <<shop, advances, now>>

\* createCashOnDelivery
CreateCashOnDelivery(p, o, u) ==
    /\ pc[p] = "idle"
    /\ Len(payments) < MaxPayments
    /\ IF ~PayableOrder(o, u)
       THEN /\ Finish(p, [NoRes EXCEPT !.kind = "OrderNotFound", !.op = "createCashOnDelivery",
                                       !.userId = u, !.orderId = o])
            /\ UNCHANGED <<payments, orders>>
       ELSE IF HasPayment(o, {"pending", "completed"})
       THEN /\ Finish(p, [NoRes EXCEPT !.kind = "DuplicatePayment",
                                       !.op = "createCashOnDelivery",
                                       !.userId = u, !.orderId = o])
            /\ UNCHANGED <<payments, orders>>
       ELSE /\ payments' = Append(payments,
                   NewPayment(o, u, "cash_on_delivery", 0, "pending", 0))
            /\ orders' = ToProcessing(o)
            /\ Finish(p, [NoRes EXCEPT !.kind = "ok", !.op = "createCashOnDelivery",
                                       !.userId = u, !.orderId = o])
    /\ UNCHANGED <<stock, price, cart, orderItems, intents, advances, now>>

\* createPayPalPayment: the caller supplies the transaction reference.
CreatePayPalPayment(p, o, u, ref) ==
    /\ pc[p] = "idle"
    /\ Len(payments) < MaxPayments
    /\ IF ~PayableOrder(o, u)
       THEN /\ Finish(p, [NoRes EXCEPT !.kind = "OrderNotFound", !.op = "createPayPalPayment",
                                       !.userId = u, !.orderId = o])
            /\ UNCHANGED <<payments, orders>>
       ELSE IF HasPayment(o, {"completed"})
       THEN /\ Finish(p, [NoRes EXCEPT !.kind = "DuplicateCompletedPayment",
                                       !.op = "createPayPalPayment",
                                       !.userId = u, !.orderId = o])
            /\ UNCHANGED <<payments, orders>>
       ELSE /\ payments' = Append(payments,
                   NewPayment(o, u, "paypal", ref, "completed", now))
            /\ orders' = ToProcessing(o)
            /\ Finish(p, [NoRes EXCEPT !.kind = "ok", !.op = "createPayPalPayment",
                                       !.userId = u, !.orderId = o])
    /\ UNCHANGED <<stock, price, cart, orderItems, intents, advances, now>>

\* updatePaymentStatus (admin)
UpdatePaymentStatus(p, k, ns) ==
    /\ pc[p] = "idle"
    /\ IF k \notin 1..Len(payments)
       THEN /\ Finish(p, [NoRes EXCEPT !.kind = "NotFound", !.op = "updatePaymentStatus"])
            /\ UNCHANGED <<payments, orders>>
       ELSE IF ns = "completed" /\ payments[k].status # "completed"
       THEN /\ payments' = [payments EXCEPT ![k].status = "completed",
                                            ![k].paymentDate = now]
            /\ orders' = ToProcessing(payments[k].orderId)
            /\ Finish(p, [NoRes EXCEPT !.kind = "ok", !.op = "updatePaymentStatus"])
       ELSE IF ns = "refunded"
       THEN /\ payments' = [payments EXCEPT ![k].status = "refunded"]
            /\ orders' = [orders EXCEPT ![payments[k].orderId].status = "refunded"]
            /\ Finish(p, [NoRes EXCEPT !.kind = "ok", !.op = "updatePaymentStatus"])
       ELSE /\ payments' = [payments EXCEPT ![k].status = ns]
            /\ UNCHANGED orders
            /\ Finish(p, [NoRes EXCEPT !.kind = "ok", !.op = "updatePaymentStatus"])
    /\ UNCHANGED <<stock, price, cart, orderItems, intents, advances, now>>

\* -------------------------------------------------------------- refundPayment
\* if (payment.status !== 'completed') throw
RefundableMutant(st) == st # "refunded"
Refundable(st) == st = "completed"

\* Payment.findByPk with its order, the status test, and for a card payment
\* stripe.refunds.create, which may fail.
RF_Begin(p, k, gatewayOk) ==
    /\ pc[p] = "idle"
    /\ IF k \notin 1..Len(payments)
       THEN Finish(p, [NoRes EXCEPT !.kind = "NotFound", !.op = "refundPayment",
                                    !.payId = k, !.gatewayOk = gatewayOk])
       ELSE IF ~Refundable(payments[k].status)
       THEN Finish(p, [NoRes EXCEPT !.kind = "NotCompleted", !.op = "refundPayment",
                                    !.payId = k, !.gatewayOk = gatewayOk])
       ELSE IF payments[k].paymentMethod = "credit_card" /\ Throws(gatewayOk)
       THEN Finish(p, [NoRes EXCEPT !.kind = "GatewayError", !.op = "refundPayment",
                                    !.payId = k, !.gatewayOk = gatewayOk])
       ELSE Goto(p, "rf_pay",
                 [NoLoc EXCEPT !.op = "refundPayment", !.payId = k,
                               !.status = payments[k].status,
                               !.orderId = payments[k].orderId,
                               !.gatewayOk = gatewayOk])
    /\ UNCHANGED <<db, now>>

\* payment.update({status: 'refunded'})
RF_UpdatePayment(p) ==
    /\ pc[p] = "rf_pay"
    /\ payments' = [payments EXCEPT ![loc[p].payId].status = "refunded"]
    /\ Goto(p, "rf_order", loc[p])
    /\ UNCHANGED <<shop, intents, advances, now>>

\* payment.order.update({status: 'refunded'})
RF_UpdateOrder(p) ==
    /\ pc[p] = "rf_order"
    /\ orders' = [orders EXCEPT ![loc[p].orderId].status = "refunded"]
    /\ Finish(p, [NoRes EXCEPT !.kind = "ok", !.op = "refundPayment",
                               !.payId = loc[p].payId, !.orderId = loc[p].orderId])
    /\ UNCHANGED <<stock, price, cart, orderItems, pay, now>>

\* ------------------------------------------------------ handleStripeWebhook
\* stripe.webhooks.constructEvent: the event's type, or a throw when the
\* signature does not verify against the shared secret.
EventTypeMutant(sigOk, type) == type
EventType(sigOk, type) == IF sigOk THEN type ELSE "invalid"

\* Payment.findOne({where: {transactionId}}): the rows that match.
FindByTransactionMutant(ref) == 1..Len(payments)
FindByTransaction(ref) == {k \in 1..Len(payments) : payments[k].transactionId = ref}

\* The throw of a signature that does not verify.
InvalidSignature(p, op, ref) ==
    Finish(p, [NoRes EXCEPT !.kind = "InvalidSignature", !.op = op, !.ref = ref,
                            !.sigOk = FALSE])

\* The webhook is acknowledged: {received: true}.
Acknowledge(p, op, ref, sigOk) ==
    Finish(p, [NoRes EXCEPT !.kind = "ok", !.op = op, !.ref = ref,
                            !.sigOk = sigOk])

\* payment_intent.succeeded: handlePaymentIntentSucceeded looks the Payment up
\* by the intent's id.  The orderId is the one in the intent's metadata (0
\* when the gateway holds no such intent).
WH_Begin(p, sigOk, ref) ==
    /\ pc[p] = "idle"
    /\ IF EventType(sigOk, "payment_intent.succeeded") = "invalid"
       THEN InvalidSignature(p, "paymentSucceeded", ref)
       ELSE IF FindByTransaction(ref) = {}
       THEN Acknowledge(p, "paymentSucceeded", ref, sigOk)
       ELSE \E k \in FindByTransaction(ref) :
               Goto(p, "wh_pay",
                    [NoLoc EXCEPT !.op = "paymentSucceeded", !.ref = ref,
                                  !.sigOk = sigOk,
                                  !.payId = k, !.status = payments[k].status,
                                  !.orderId = IF ref \in 1..Len(intents)
                                              THEN intents[ref] ELSE 0])
    /\ UNCHANGED <<db, now>>

\* The row a delivery writes over the Payment it found.
Completed(row, ref, t) ==
    [row EXCEPT !.status = "completed", !.paymentDate = t, !.cardLastFour = ref]

\* payment.update({status: 'completed', paymentDate: new Date(), ...})
WH_UpdatePayment(p) ==
    /\ pc[p] = "wh_pay"
    /\ payments' = [payments EXCEPT ![loc[p].payId] = Completed(@, loc[p].ref, now)]
    /\ Goto(p, "wh_order", loc[p])
    /\ UNCHANGED <<shop, intents, advances, now>>

\* Order.update({status: 'processing'}, {where: {id: orderId}})
WH_UpdateOrder(p) ==
    /\ pc[p] = "wh_order"
    /\ LET o == loc[p].orderId
       IN  IF o \in 1..Len(orders)
           THEN /\ orders' = [orders EXCEPT ![o].status = "processing"]
                /\ advances' = [advances EXCEPT ![o] =
                       IF orders[o].status # "processing" /\ @ < 2 THEN @ + 1 ELSE @]
           ELSE UNCHANGED <<orders, advances>>
    /\ Acknowledge(p, "paymentSucceeded", loc[p].ref, loc[p].sigOk)
    /\ UNCHANGED <<stock, price, cart, orderItems, payments, intents, now>>

\* payment_intent.payment_failed: handlePaymentIntentFailed
PF_Begin(p, sigOk, ref) ==
    /\ pc[p] = "idle"
    /\ IF EventType(sigOk, "payment_intent.payment_failed") = "invalid"
       THEN InvalidSignature(p, "paymentFailed", ref)
       ELSE IF FindByTransaction(ref) = {}
       THEN Acknowledge(p, "paymentFailed", ref, sigOk)
       ELSE \E k \in FindByTransaction(ref) :
               Goto(p, "pf_pay",
                    [NoLoc EXCEPT !.op = "paymentFailed", !.ref = ref,
                                  !.sigOk = sigOk,
                                  !.payId = k, !.status = payments[k].status])
    /\ UNCHANGED <<db, now>>

\* payment.update({status: 'failed'}): the row written.
FailedMutant(row) == [row EXCEPT !.status = "failed", !.paymentDate = 0]
Failed(row) == [row EXCEPT !.status = "failed"]

PF_UpdatePayment(p) ==
    /\ pc[p] = "pf_pay"
    /\ payments' = [payments EXCEPT ![loc[p].payId] = Failed(@)]
    /\ Acknowledge(p, "paymentFailed", loc[p].ref, loc[p].sigOk)
    /\ UNCHANGED <<shop, intents, advances, now>>

\* charge.refunded: handleChargeRefunded looks for a completed Payment of the
\* charge's intent; full is charge.refunded, the charge is refunded in full.
\* Payment.findOne({where: {transactionId, status: 'completed'}})
FindCompletedMutant(ref) == FindByTransaction(ref)
FindCompleted(ref) == {k \in FindByTransaction(ref) : payments[k].status = "completed"}

WR_Begin(p, sigOk, ref, full) ==
    /\ pc[p] = "idle"
    /\ IF EventType(sigOk, "charge.refunded") = "invalid"
       THEN InvalidSignature(p, "chargeRefunded", ref)
       ELSE IF FindCompleted(ref) = {}
       THEN Acknowledge(p, "chargeRefunded", ref, sigOk)
       ELSE \E k \in FindCompleted(ref) :
               /\ Goto(p, "wr_pay",
                       [NoLoc EXCEPT !.op = "chargeRefunded", !.ref = ref,
                                     !.sigOk = sigOk,
                                     !.payId = k, !.status = payments[k].status,
                                     !.orderId = payments[k].orderId,
                                     !.full = full])
    /\ UNCHANGED <<db, now>>

\* payment.update({status: 'refunded'})
WR_UpdatePayment(p) ==
    /\ pc[p] = "wr_pay"
    /\ payments' = [payments EXCEPT ![loc[p].payId].status = "refunded"]
    /\ IF loc[p].full
       THEN Goto(p, "wr_order", loc[p])
       ELSE Acknowledge(p, "chargeRefunded", loc[p].ref, loc[p].sigOk)
    /\ UNCHANGED <<shop, intents, advances, now>>

\* Order.update({status: 'refunded'}, {where: {id: payment.orderId}})
WR_UpdateOrder(p) ==
    /\ pc[p] = "wr_order"
    /\ orders' = [orders EXCEPT ![loc[p].orderId].status = "refunded"]
    /\ Acknowledge(p, "chargeRefunded", loc[p].ref, loc[p].sigOk)
    /\ UNCHANGED <<stock, price, cart, orderItems, pay, now>>

\* charge.succeeded is dispatched to handleChargeSucceeded, which the class
\* does not define: the call throws and the webhook is answered 500.  Any
\* other event type is logged and acknowledged.
WH_Other(p, sigOk, type) ==
    /\ pc[p] = "idle"
    /\ IF EventType(sigOk, type) = "invalid"
       THEN InvalidSignature(p, type, 0)
       ELSE IF type = "charge.succeeded"
       THEN Finish(p, [NoRes EXCEPT !.kind = "HandlerError", !.op = type,
                                    !.sigOk = sigOk])
       ELSE Acknowledge(p, type, 0, sigOk)
    /\ UNCHANGED <<db, now>>

\* ---------------------------------------------------------- specifications
\* Requests of customers, and of the admin.
UserBegin(p) ==
    \/ \E u \in Users : CO_Begin(p, u)
    \/ \E u \in Users, o \in 1..MaxOrders : CA_Begin(p, u, o)

AdminBegin(p) ==
    \E o \in 1..MaxOrders, ns \in OrderStatuses : UO_Begin(p, o, ns)

CreateStep(p) ==
    \/ CO_CreateOrder(p)
    \/ CO_CreateItem(p)
    \/ CO_Decrement(p)
    \/ CO_ClearCart(p)
    \/ \E sent \in BOOLEAN : CO_Mail(p, sent)

CancelStep(p) ==
    \/ CA_Increment(p)
    \/ CA_Update(p)

UserStep(p) ==
    \/ CreateStep(p)
    \/ CancelStep(p)
    \/ Return(p)

AdminStep(p) ==
    \/ UO_FindItems(p)
    \/ UO_Increment(p)
    \/ UO_Update(p)
    \/ \E sent \in BOOLEAN : UO_Mail(p, sent)

Quiet == \A p \in Procs : pc[p] = "idle"

FillCart == \E u \in Users, b \in Books, q \in 1..MaxQty : AddToCart(u, b, q)

\* Customers only, one request at a time: each handler runs to its response
\* before the next request arrives.
Next ==
    \/ Quiet /\ FillCart
    \/ UserBegin("r1")
    \/ UserStep("r1")

Spec == Init /\ [][Next]_vars

\* Customers and the admin, one request at a time.
NextAdmin ==
    \/ Quiet /\ \E b \in Books, q \in 1..MaxQty : AddToCart("u1", b, q)
    \/ Len(orders) < MaxAdminOrders /\ \E u \in Users : CO_Begin("r1", u)
    \/ \E u \in Users, o \in 1..MaxOrders : CA_Begin("r1", u, o)
    \/ UserStep("r1")
    \/ AdminBegin("r1")
    \/ AdminStep("r1")

SpecAdmin == Init /\ [][NextAdmin]_vars

PayBegin(p) ==
    \/ \E o \in 1..MaxAdminOrders, u \in Users, ok \in BOOLEAN :
           CreatePaymentIntent(p, o, u, ok)
    \/ \E o \in 1..MaxAdminOrders, u \in Users : CreateCashOnDelivery(p, o, u)
    \/ \E o \in 1..MaxAdminOrders, u \in Users, ref \in WalletRefs :
           CreatePayPalPayment(p, o, u, ref)
    \/ \E k \in 1..MaxPayments, ns \in PaymentStatuses : UpdatePaymentStatus(p, k, ns)
    \/ \E sigOk \in BOOLEAN, ref \in 1..MaxPayments : WH_Begin(p, sigOk, ref)

PayStep(p) ==
    \/ WH_UpdatePayment(p)
    \/ WH_UpdateOrder(p)

\* Orders are placed, paid and shipped, one request at a time, while the
\* gateway delivers its notifications.
NextPay ==
    \/ Quiet /\ Tick
    \/ Quiet /\ AddToCart("u1", "A", 1)
    \/ Len(orders) < MaxAdminOrders /\ CO_Begin("r1", "u1")
    \/ CreateStep("r1")
    \/ \E o \in 1..MaxAdminOrders : UO_Begin("r1", o, "shipped")
    \/ UO_Update("r1")
    \/ \E sent \in BOOLEAN : UO_Mail("r1", sent)
    \/ PayBegin("r1")
    \/ PayStep("r1")
    \/ Return("r1")

SpecPay == Init /\ [][NextPay]_vars

\* The gateway delivers a notification more than once, and the deliveries and
\* the admin's shipping of the order interleave at every await.
NextPayRace ==
    \/ Quiet /\ AddToCart("u1", "A", 1)
    \/ Quiet /\ Len(orders) < MaxAdminOrders /\ CO_Begin("r1", "u1")
    \/ CreateStep("r1")
    \/ Quiet /\ \E o \in 1..MaxAdminOrders : CreatePaymentIntent("r1", o, "u1", TRUE)
    \/ \E p \in Procs, ref \in 1..MaxPayments : WH_Begin(p, TRUE, ref)
    \/ \E p \in Procs : PayStep(p)
    \/ \E p \in Procs, o \in 1..MaxAdminOrders : UO_Begin(p, o, "shipped")
    \/ \E p \in Procs : UO_Update(p)
    \/ \E p \in Procs : UO_Mail(p, TRUE)
    \/ \E p \in Procs : Return(p)

SpecPayRace == Init /\ [][NextPayRace]_vars

\* Notifications of the gateway, of every type, with and without a signature
\* that verifies.
HookBegin(p) ==
    \/ \E sigOk \in BOOLEAN, ref \in 1..MaxPayments : WH_Begin(p, sigOk, ref)
    \/ \E sigOk \in BOOLEAN, ref \in 1..MaxPayments : PF_Begin(p, sigOk, ref)
    \/ \E sigOk \in BOOLEAN, ref \in 1..MaxPayments, full \in BOOLEAN :
           WR_Begin(p, sigOk, ref, full)
    \/ \E sigOk \in BOOLEAN, type \in {"charge.succeeded", "customer.created"} :
           WH_Other(p, sigOk, type)

HookStep(p) ==
    \/ PayStep(p)
    \/ PF_UpdatePayment(p)
    \/ WR_UpdatePayment(p)
    \/ WR_UpdateOrder(p)

\* An order is placed and a card payment initiated for it, and the gateway
\* delivers notifications of every type; one request at a time.
NextHook ==
    \/ Quiet /\ AddToCart("u1", "A", 1)
    \/ Len(orders) < MaxAdminOrders /\ CO_Begin("r1", "u1")
    \/ CreateStep("r1")
    \/ \E o \in 1..MaxAdminOrders : CreatePaymentIntent("r1", o, "u1", TRUE)
    \/ HookBegin("r1")
    \/ HookStep("r1")
    \/ Return("r1")

SpecHook == Init /\ [][NextHook]_vars

\* An order is placed and paid for, the admin overrides payment statuses and
\* refunds payments; one request at a time.
NextRefund ==
    \/ Quiet /\ AddToCart("u1", "A", 1)
    \/ Len(orders) < MaxAdminOrders /\ CO_Begin("r1", "u1")
    \/ CreateStep("r1")
    \/ \E o \in 1..MaxAdminOrders, ok \in BOOLEAN :
           CreatePaymentIntent("r1", o, "u1", ok)
    \/ \E o \in 1..MaxAdminOrders : CreateCashOnDelivery("r1", o, "u1")
    \/ \E o \in 1..MaxAdminOrders, ref \in WalletRefs :
           CreatePayPalPayment("r1", o, "u1", ref)
    \/ \E k \in 1..MaxPayments, ns \in PaymentStatuses :
           UpdatePaymentStatus("r1", k, ns)
    \/ \E k \in 1..MaxPayments, ok \in BOOLEAN : RF_Begin("r1", k, ok)
    \/ RF_UpdatePayment("r1")
    \/ RF_UpdateOrder("r1")
    \/ Return("r1")

SpecRefund == Init /\ [][NextRefund]_vars

\* Orders are placed and the admin cancels them, by each of the paths that
\* set an order's status; one request at a time.
NextCancel ==
    \/ Quiet /\ \E b \in Books, q \in 1..MaxQty : AddToCart("u1", b, q)
    \/ Len(orders) < MaxAdminOrders /\ CO_Begin("r1", "u1")
    \/ CreateStep("r1")
    \/ \E o \in 1..MaxOrders : UO_Begin("r1", o, "cancelled")
    \/ AdminStep("r1")
    \/ \E o \in 1..MaxOrders : AS_Begin("r1", o, "cancelled")
    \/ AS_Update("r1")
    \/ \E o \in 1..MaxOrders : OC_Begin("r1", o, "cancelled")
    \/ OC_Save("r1")
    \/ Return("r1")

SpecCancel == Init /\ [][NextCancel]_vars

\* The three ways to initiate a payment, for any order id and any caller.
InitiateBegin(p) ==
    \/ \E o \in 1..MaxOrders, u \in Users, ok \in BOOLEAN :
           CreatePaymentIntent(p, o, u, ok)
    \/ \E o \in 1..MaxOrders, u \in Users : CreateCashOnDelivery(p, o, u)
    \/ \E o \in 1..MaxOrders, u \in Users, ref \in WalletRefs :
           CreatePayPalPayment(p, o, u, ref)

\* A customer places an order, pays for it in any of the three ways and may
\* cancel it, and the admin marks payments as failed; one request at a time.
NextCheckout ==
    \/ Quiet /\ AddToCart("u1", "A", 1)
    \/ Len(orders) < MaxAdminOrders /\ CO_Begin("r1", "u1")
    \/ CreateStep("r1")
    \/ \E u \in Users, o \in 1..MaxOrders : CA_Begin("r1", u, o)
    \/ CancelStep("r1")
    \/ InitiateBegin("r1")
    \/ \E k \in 1..MaxPayments : UpdatePaymentStatus("r1", k, "failed")
    \/ Return("r1")

SpecCheckout == Init /\ [][NextCheckout]_vars

\* Customers place orders while the admin changes catalog prices at any time.
NextPrice ==
    \/ Quiet /\ FillCart
    \/ \E b \in Books, v \in Prices : SetPrice(b, v)
    \/ \E u \in Users : CO_Begin("r1", u)
    \/ CreateStep("r1")
    \/ Return("r1")

SpecPrice == Init /\ [][NextPrice]_vars

\* Requests of customers interleave at every await.
NextRace ==
    \/ Quiet /\ FillCart
    \/ \E p \in Procs : UserBegin(p)
    \/ \E p \in Procs : UserStep(p)

SpecRace == Init /\ [][NextRace]_vars

\* An order is placed and the admin changes its status again and again while
\* the clock advances; one request at a time.
NextStamp ==
    \/ Quiet /\ Tick
    \/ Quiet /\ AddToCart("u1", "A", 1)
    \/ Len(orders) < MaxAdminOrders /\ CO_Begin("r1", "u1")
    \/ CreateStep("r1")
    \/ AdminBegin("r1")
    \/ AdminStep("r1")
    \/ Return("r1")

SpecStamp == Init /\ [][NextStamp]_vars

\* ==================================================================== claims
\* Quantity of book b held by the order items of orders that are not cancelled.
RECURSIVE SumQuantity(_)
SumQuantity(S) ==
    IF S = {} THEN 0
    ELSE LET it == CHOOSE x \in S : TRUE IN it.quantity + SumQuantity(S \ {it})

RECURSIVE SumAmount(_)
SumAmount(S) ==
    IF S = {} THEN 0
    ELSE LET it == CHOOSE x \in S : TRUE
         IN  it.price * it.quantity + SumAmount(S \ {it})

Reserved(b) ==
    SumQuantity({it \in orderItems :
                    it.bookId = b /\ orders[it.orderId].status # "cancelled"})

CompletedPayments(o) ==
    {k \in 1..Len(payments) : payments[k].orderId = o /\ payments[k].status = "completed"}

\* C1: no order ever has two payments with status completed.
C1_AtMostOneCompleted ==
    \A o \in 1..Len(orders) : Cardinality(CompletedPayments(o)) <= 1

\* C2: a delivery of "payment succeeded" that finds its Payment already
\* completed is a no-op: it changes no payment (paymentDate and card data stay
\* as they are) and no order.
C2_ReplayIsNoOp ==
    [][\A p \in Procs :
          (pc[p] \in {"wh_pay", "wh_order"} /\ loc[p].status = "completed")
              => (payments' = payments /\ orders' = orders)]_vars

\* C3: once every createOrder in flight has returned, the quantity of each book
\* held by the orders that stand does not exceed the stock there was to sell.
C3_NoOversell ==
    Quiet => \A b \in Books : Reserved(b) <= InitStock[b]

\* C4: no book's stock is ever negative.
C4_StockNonNegative ==
    \A b \in Books : stock[b] >= 0

\* C5: in every state, whoever looks, each order row comes with all its order
\* items and its stock decrement: the order's total is the sum of its items
\* and every book's stock plus the quantity held by standing orders is the
\* initial stock.
C5_CreateOrderAtomic ==
    /\ \A o \in 1..Len(orders) :
          orders[o].totalAmount =
              SumAmount({it \in orderItems : it.orderId = o})
    /\ \A b \in Books : stock[b] + Reserved(b) = InitStock[b]

\* C6: however the deliveries of a "payment succeeded" notification interleave
\* with each other and with the shipping of the order, they move the order to
\* processing at most once.
C6_AdvancedAtMostOnce ==
    \A o \in 1..MaxOrders : advances[o] <= 1

\* C7: stock round trip.  When createOrder has made its last stock write, each
\* book of the cart stands at the stock read before the order minus the
\* ordered quantity; and whenever no request is at work, each book stands at
\* its initial stock minus what the orders not cancelled hold, so that the
\* cancelOrder of an order gives back exactly what its createOrder took.
C7_StockRoundTrip ==
    /\ \A p \in Procs :
          pc[p] \in {"co_cart", "co_mail"} =>
              \A k \in 1..Len(loc[p].lines) :
                  stock[loc[p].lines[k].bookId] =
                      loc[p].lines[k].stock - loc[p].lines[k].quantity
    /\ (\A p \in Procs : pc[p] \in {"idle", "done"}) =>
          \A b \in Books : stock[b] = InitStock[b] - Reserved(b)

\* C7 witness: a cancelOrder has succeeded on an order that held two units of
\* book A, and the stock is back at its initial value.
C7_Witness ==
    /\ pc["r1"] = "done" /\ loc["r1"].op = "cancelOrder" /\ loc["r1"].kind = "ok"
    /\ \E it \in orderItems :
          it.orderId = loc["r1"].orderId /\ it.bookId = "A" /\ it.quantity = 2
    /\ stock = InitStock

\* C8: a createOrder of a user whose cart is empty fails with EmptyCart, one
\* whose cart has a line that the stock does not cover fails with
\* InsufficientStock naming such a line's book and its stock, and a failing
\* createOrder changes no row of any table.
C8_FailedCreateMutatesNothing ==
    [][\A p \in Procs :
          (pc[p] = "idle" /\ pc'[p] # "idle" /\ loc'[p].op = "createOrder") =>
              LET u == loc'[p].userId
                  failed == pc'[p] = "done"
              IN  /\ (\A b \in Books : cart[u][b] = 0) =>
                        failed /\ loc'[p].kind = "EmptyCart"
                  /\ (\E b \in Books : cart[u][b] > stock[b]) =>
                        /\ failed /\ loc'[p].kind = "InsufficientStock"
                        /\ cart[u][loc'[p].item] > stock[loc'[p].item]
                        /\ loc'[p].available = stock[loc'[p].item]
                  /\ failed =>
                        /\ loc'[p].kind \in {"EmptyCart", "InsufficientStock"}
                        /\ UNCHANGED db]_vars

\* C8 witness: createOrder has failed on book B, of which none is left, for a
\* cart whose line of book A is covered by the stock.
C8_Witness ==
    /\ pc["r1"] = "done" /\ loc["r1"].op = "createOrder"
    /\ loc["r1"].kind = "InsufficientStock"
    /\ loc["r1"].item = "B" /\ loc["r1"].available = 0
    /\ cart[loc["r1"].userId]["A"] > 0
    /\ cart[loc["r1"].userId]["A"] <= stock["A"]

\* C9: once the order items of an order are written, the order's totalAmount
\* is the sum of price * quantity over them, and each item carries the
\* quantity of its cart line and the catalog price read with the cart.
C9_TotalIsSumOfItems ==
    /\ \A o \in 1..Len(orders) :
          (\A p \in Procs : ~(pc[p] = "co_items" /\ loc[p].orderId = o)) =>
              orders[o].totalAmount =
                  SumAmount({it \in orderItems : it.orderId = o})
    /\ \A p \in Procs :
          pc[p] \in {"co_stock", "co_cart", "co_mail"} =>
              /\ Len(ItemsOf(loc[p].orderId)) = Len(loc[p].lines)
              /\ \A k \in 1..Len(loc[p].lines) :
                    /\ ItemsOf(loc[p].orderId)[k].bookId = loc[p].lines[k].bookId
                    /\ ItemsOf(loc[p].orderId)[k].price = loc[p].lines[k].price
                    /\ ItemsOf(loc[p].orderId)[k].quantity = loc[p].lines[k].quantity

\* C9 witness: the order of two units of A at 10.00 and one unit of B at 25.00
\* has been created with a total of 45.00.
C9_Witness ==
    /\ pc["r1"] = "done" /\ loc["r1"].op = "createOrder" /\ loc["r1"].kind = "ok"
    /\ orders[loc["r1"].orderId].totalAmount = 4500
    /\ \E it \in orderItems :
          it.orderId = loc["r1"].orderId /\ it.bookId = "A"
              /\ it.quantity = 2 /\ it.price = 1000
    /\ \E it \in orderItems :
          it.orderId = loc["r1"].orderId /\ it.bookId = "B"
              /\ it.quantity = 1 /\ it.price = 2500

\* C10: a cancelOrder on an order whose status is neither pending nor
\* processing fails and changes no row: the order's status and timestamps and
\* every stock stay as they are.
C10_CancelRejected ==
    [][\A p \in Procs :
          (/\ pc[p] = "idle" /\ pc'[p] # "idle" /\ loc'[p].op = "cancelOrder"
           /\ loc'[p].orderId \in 1..Len(orders)
           /\ orders[loc'[p].orderId].status \notin {"pending", "processing"})
              => /\ pc'[p] = "done"
                 /\ loc'[p].kind = "NotFoundOrNotCancellable"
                 /\ UNCHANGED db]_vars

\* C10 witness: the owner's cancelOrder of a shipped order has failed.
C10_Witness ==
    /\ pc["r1"] = "done" /\ loc["r1"].op = "cancelOrder"
    /\ loc["r1"].kind = "NotFoundOrNotCancellable"
    /\ loc["r1"].orderId \in 1..Len(orders)
    /\ orders[loc["r1"].orderId].status = "shipped"
    /\ orders[loc["r1"].orderId].userId = loc["r1"].userId

\* C11: an updateOrderStatus on an existing order gets past its first read
\* only for a transition pending -> processing, processing -> shipped,
\* shipped -> delivered or pending/processing -> cancelled; for every other
\* pair (current status, new status) it is answered InvalidTransition there,
\* with no row written.
C11_InvalidTransitionRejected ==
    [][\A p \in Procs :
          (pc[p] = "idle" /\ pc'[p] \in {"uo_find", "uo_update"})
              => <<loc'[p].status, loc'[p].newStatus>> \in
                    {<<"pending", "processing">>, <<"processing", "shipped">>,
                     <<"shipped", "delivered">>, <<"pending", "cancelled">>,
                     <<"processing", "cancelled">>}]_vars

\* C12: delivered, cancelled and refunded are terminal.  No step changes the
\* status of an order that is in one of them, except the move to refunded made
\* by the step that turns a completed payment of that order into refunded.
C12_TerminalStatesStay ==
    [][\A o \in 1..Len(orders) :
          (/\ orders[o].status \in {"delivered", "cancelled", "refunded"}
           /\ orders'[o].status # orders[o].status)
              => /\ orders'[o].status = "refunded"
                 /\ \E k \in 1..Len(payments) :
                       /\ payments[k].orderId = o
                       /\ payments[k].status = "completed"
                       /\ payments'[k].status = "refunded"]_vars

\* C13: every order has at most one payment whose status is pending or
\* completed, whatever payments were initiated for it.
C13_OneActivePayment ==
    \A o \in 1..Len(orders) :
        Cardinality({k \in 1..Len(payments) :
                        /\ payments[k].orderId = o
                        /\ payments[k].status \in {"pending", "completed"}}) <= 1

\* C14 as stated: a createCashOnDelivery by the owner of an order that has a
\* pending or completed payment fails with DuplicatePayment, whatever the
\* order's status.
C14_DuplicateWhenever ==
    [][\A p \in Procs :
          (pc[p] = "idle" /\ pc'[p] = "done" /\ loc'[p].op = "createCashOnDelivery")
              => LET o == loc'[p].orderId
                 IN  (/\ o \in 1..Len(orders)
                      /\ orders[o].userId = loc'[p].userId
                      /\ \E k \in 1..Len(payments) :
                            /\ payments[k].orderId = o
                            /\ payments[k].status \in {"pending", "completed"})
                         => loc'[p].kind = "DuplicatePayment"]_vars

\* C14, amended: a createCashOnDelivery by the owner of an order that is not
\* cancelled and has no pending or completed payment appends one payment, in
\* pending, by cash on delivery, with no transaction reference, and leaves the
\* order in processing; if the order has a pending or completed payment the
\* call fails with DuplicatePayment; if the order is cancelled or not the
\* caller's it fails with OrderNotFound; a failing call changes no payment
\* and no order.
C14_CashOnDelivery ==
    [][\A p \in Procs :
          (pc[p] = "idle" /\ pc'[p] = "done" /\ loc'[p].op = "createCashOnDelivery")
              => LET o == loc'[p].orderId
                     u == loc'[p].userId
                     payable == /\ o \in 1..Len(orders)
                                /\ orders[o].userId = u
                                /\ orders[o].status # "cancelled"
                     active == \E k \in 1..Len(payments) :
                                  /\ payments[k].orderId = o
                                  /\ payments[k].status \in {"pending", "completed"}
                 IN  /\ (payable /\ ~active) =>
                           /\ loc'[p].kind = "ok"
                           /\ Len(payments') = Len(payments) + 1
                           /\ SubSeq(payments', 1, Len(payments)) = payments
                           /\ payments'[Len(payments')].orderId = o
                           /\ payments'[Len(payments')].status = "pending"
                           /\ payments'[Len(payments')].paymentMethod = "cash_on_delivery"
                           /\ payments'[Len(payments')].transactionId = 0
                           /\ orders'[o].status = "processing"
                     /\ (payable /\ active) =>
                           /\ loc'[p].kind = "DuplicatePayment"
                           /\ payments' = payments /\ orders' = orders
                     /\ ~payable =>
                           /\ loc'[p].kind = "OrderNotFound"
                           /\ payments' = payments /\ orders' = orders]_vars

\* C14 witness: the owner's second createCashOnDelivery on an order whose
\* cash-on-delivery payment is pending has failed with DuplicatePayment.
C14_Witness ==
    /\ pc["r1"] = "done" /\ loc["r1"].op = "createCashOnDelivery"
    /\ loc["r1"].kind = "DuplicatePayment"
    /\ orders[loc["r1"].orderId].status = "processing"
    /\ Len(payments) = 1
    /\ payments[1].orderId = loc["r1"].orderId
    /\ payments[1].paymentMethod = "cash_on_delivery"
    /\ payments[1].status = "pending" /\ payments[1].transactionId = 0

\* C17: a createPaymentIntent, createCashOnDelivery or createPayPalPayment
\* whose order does not exist, is not the caller's or is cancelled fails with
\* OrderNotFound, inserts no payment, creates no intent at the gateway and
\* changes no order.
C17_OrderNotFound ==
    [][\A p \in Procs :
          (/\ pc[p] = "idle" /\ pc'[p] = "done"
           /\ loc'[p].op \in {"createPaymentIntent", "createCashOnDelivery",
                              "createPayPalPayment"})
              => LET o == loc'[p].orderId
                     u == loc'[p].userId
                 IN  (\/ o \notin 1..Len(orders)
                      \/ orders[o].userId # u
                      \/ orders[o].status = "cancelled")
                         => /\ loc'[p].kind = "OrderNotFound"
                            /\ payments' = payments
                            /\ intents' = intents
                            /\ orders' = orders]_vars

\* C17 witness: the owner's createPaymentIntent on a cancelled order has
\* failed with OrderNotFound.
C17_Witness ==
    /\ pc["r1"] = "done" /\ loc["r1"].op = "createPaymentIntent"
    /\ loc["r1"].kind = "OrderNotFound"
    /\ loc["r1"].orderId \in 1..Len(orders)
    /\ orders[loc["r1"].orderId].userId = loc["r1"].userId
    /\ orders[loc["r1"].orderId].status = "cancelled"

\* C15: a "payment succeeded" notification with a signature that verifies and
\* a transaction reference that no Payment carries is acknowledged at once,
\* and no row of any table changes: payments, orders and stock are as before.
C15_UnknownReferenceIgnored ==
    [][\A p \in Procs :
          (/\ pc[p] = "idle" /\ pc'[p] # "idle"
           /\ loc'[p].op = "paymentSucceeded" /\ loc'[p].sigOk
           /\ \A k \in 1..Len(payments) : payments[k].transactionId # loc'[p].ref)
              => /\ pc'[p] = "done"
                 /\ loc'[p].kind = "ok"
                 /\ UNCHANGED db]_vars

\* C15 witness: such a notification has been acknowledged while another
\* payment, of a pending order, is waiting for its own notification.
C15_Witness ==
    /\ pc["r1"] = "done" /\ loc["r1"].op = "paymentSucceeded"
    /\ loc["r1"].kind = "ok" /\ loc["r1"].sigOk
    /\ \A k \in 1..Len(payments) : payments[k].transactionId # loc["r1"].ref
    /\ \E k \in 1..Len(payments) :
          payments[k].status = "pending" /\ orders[payments[k].orderId].status = "pending"

\* C16: a notification of any type whose signature does not verify is answered
\* InvalidSignature at once: no handler takes a step for it and no row of any
\* table changes.
C16_InvalidSignatureRejected ==
    [][\A p \in Procs :
          (/\ pc[p] = "idle" /\ pc'[p] # "idle"
           /\ loc'[p].op \in {"paymentSucceeded", "paymentFailed", "chargeRefunded",
                              "charge.succeeded", "customer.created"}
           /\ ~loc'[p].sigOk)
              => /\ pc'[p] = "done"
                 /\ loc'[p].kind = "InvalidSignature"
                 /\ UNCHANGED db]_vars

\* C16 witness: a "charge refunded" notification with a bad signature has been
\* rejected although it names a completed payment, which stays completed.
C16_Witness ==
    /\ pc["r1"] = "done" /\ loc["r1"].op = "chargeRefunded"
    /\ loc["r1"].kind = "InvalidSignature"
    /\ \E k \in 1..Len(payments) :
          /\ payments[k].transactionId = loc["r1"].ref
          /\ payments[k].status = "completed"

\* C18: a refundPayment of an unknown payment id reports NotFound, and one of
\* a payment that is pending, failed or refunded fails with NotCompleted, in
\* both cases with no row changed; a refundPayment goes on to its writes only
\* for a payment read as completed, and when it returns successfully the
\* payment and its order are both refunded.
C18_RefundOnlyCompleted ==
    [][\A p \in Procs :
          /\ (pc[p] = "idle" /\ pc'[p] # "idle" /\ loc'[p].op = "refundPayment")
                => LET k == loc'[p].payId
                   IN  /\ k \notin 1..Len(payments) =>
                             /\ pc'[p] = "done" /\ loc'[p].kind = "NotFound"
                             /\ UNCHANGED db
                       /\ (k \in 1..Len(payments) /\ payments[k].status # "completed") =>
                             /\ pc'[p] = "done" /\ loc'[p].kind = "NotCompleted"
                             /\ UNCHANGED db
                       /\ pc'[p] # "done" => payments[k].status = "completed"
          /\ (/\ pc[p] # "done" /\ pc'[p] = "done"
              /\ loc'[p].op = "refundPayment" /\ loc'[p].kind = "ok")
                => /\ payments'[loc'[p].payId].status = "refunded"
                   /\ orders'[payments'[loc'[p].payId].orderId].status = "refunded"]_vars

\* C18 witness: the refund of a completed card payment has succeeded; the
\* payment and its order are refunded.
C18_Witness ==
    /\ pc["r1"] = "done" /\ loc["r1"].op = "refundPayment" /\ loc["r1"].kind = "ok"
    /\ payments[loc["r1"].payId].paymentMethod = "credit_card"
    /\ payments[loc["r1"].payId].status = "refunded"
    /\ orders[payments[loc["r1"].payId].orderId].status = "refunded"

\* C19: a createOrder that passes its checks reads, for each cart line of the
\* user, the line's quantity and the book's catalog price of that moment; when
\* it has made its last write the order is pending and the user's, it has
\* exactly one order item per cart line, carrying the quantity and the price
\* read, and the user's cart is empty; and no step of a createOrder changes
\* the cart of another user.
C19_CreateOrderEffects ==
    [][\A p \in Procs :
          /\ (pc[p] = "idle" /\ pc'[p] = "co_order") =>
                LET u == loc'[p].userId
                    l == loc'[p].lines
                IN  /\ {l[k].bookId : k \in 1..Len(l)} = {b \in Books : cart[u][b] > 0}
                    /\ \A k \in 1..Len(l) :
                          /\ l[k].quantity = cart[u][l[k].bookId]
                          /\ l[k].price = price[l[k].bookId]
          /\ pc[p] \in {"co_order", "co_items", "co_stock", "co_cart", "co_mail"} =>
                \A v \in Users \ {loc[p].userId} : cart'[v] = cart[v]
          /\ (pc[p] = "co_cart" /\ pc'[p] = "co_mail") =>
                LET u == loc[p].userId
                    o == loc[p].orderId
                    l == loc[p].lines
                    its == {it \in orderItems' : it.orderId = o}
                IN  /\ orders'[o].status = "pending" /\ orders'[o].userId = u
                    /\ Cardinality(its) = Cardinality({b \in Books : cart[u][b] > 0})
                    /\ its = {[orderId |-> o, bookId |-> l[k].bookId,
                               quantity |-> l[k].quantity, price |-> l[k].price] :
                                 k \in 1..Len(l)}
                    /\ \A k \in 1..Len(l) : l[k].quantity = cart[u][l[k].bookId]
                    /\ \A b \in Books : cart'[u][b] = 0]_vars

\* C19 witness: u1's order of books A and B has been created, u1's cart is
\* empty and u2's cart still holds its line.
C19_Witness ==
    /\ pc["r1"] = "done" /\ loc["r1"].op = "createOrder" /\ loc["r1"].kind = "ok"
    /\ loc["r1"].userId = "u1"
    /\ orders[loc["r1"].orderId].status = "pending"
    /\ Cardinality({it \in orderItems : it.orderId = loc["r1"].orderId}) = 2
    /\ \A b \in Books : cart["u1"][b] = 0
    /\ cart["u2"]["A"] > 0

\* C20: whichever admin path has set orders to cancelled, once the requests
\* have returned every cancelled order carries its cancelledAt and the
\* quantities of its items are back in stock exactly once: each book stands
\* at its initial stock minus what the orders not cancelled hold.
C20_AdminCancelRestoresStock ==
    (\A p \in Procs : pc[p] \in {"idle", "done"}) =>
        /\ \A o \in 1..Len(orders) :
              orders[o].status = "cancelled" => orders[o].cancelledAt # 0
        /\ \A b \in Books : stock[b] = InitStock[b] - Reserved(b)

\* C21: whatever cancellations and status updates are made, what is added
\* back to a book's stock never exceeds what the orders took from it: no
\* book's stock ever stands above its initial stock.
C21_ReleasedAtMostOnce ==
    \A b \in Books : stock[b] <= InitStock[b]

\* C22: ledger conservation.  Whenever no request is at work, each book's
\* stock plus the quantity of it held by the order items of the orders that
\* are not cancelled is the book's initial stock.
C22_LedgerConservation ==
    Quiet => \A b \in Books : stock[b] + Reserved(b) = InitStock[b]

\* C23: a lifecycle timestamp that holds a value keeps it: no step changes
\* the shippedAt, deliveredAt or cancelledAt of an order once it is set.
C23_StampedAtMostOnce ==
    [][\A o \in 1..Len(orders) :
          /\ orders[o].shippedAt # 0 => orders'[o].shippedAt = orders[o].shippedAt
          /\ orders[o].deliveredAt # 0 => orders'[o].deliveredAt = orders[o].deliveredAt
          /\ orders[o].cancelledAt # 0 => orders'[o].cancelledAt = orders[o].cancelledAt]_vars

\* C24: notifications are tolerated in any order of delivery.  The write of a
\* "payment failed" delivery leaves every completed payment completed, and
\* the order write of a "payment succeeded" delivery leaves every order that
\* is cancelled, shipped or delivered in its status.
C24_OutOfOrderTolerated ==
    [][\A p \in Procs :
          /\ (pc[p] = "pf_pay" /\ pc'[p] # "pf_pay") =>
                \A k \in 1..Len(payments) :
                    payments[k].status = "completed" => payments'[k].status = "completed"
          /\ (pc[p] = "wh_order" /\ pc'[p] # "wh_order") =>
                \A o \in 1..Len(orders) :
                    orders[o].status \in {"cancelled", "shipped", "delivered"}
                        => orders'[o].status = orders[o].status]_vars

\* C25: a "payment failed" notification reads without writing, goes on to its
\* write exactly when a Payment carries its reference, and that write sets
\* the status of one such Payment to failed and changes nothing else: the
\* row's other fields, every other payment, every order and all stock are as
\* before.
C25_FailedChangesPaymentOnly ==
    [][\A p \in Procs :
          /\ (/\ pc[p] = "idle" /\ pc'[p] # "idle"
              /\ loc'[p].op = "paymentFailed" /\ loc'[p].sigOk) =>
                /\ UNCHANGED db
                /\ (pc'[p] = "pf_pay") <=>
                      \E k \in 1..Len(payments) : payments[k].transactionId = loc'[p].ref
          /\ (pc[p] = "pf_pay" /\ pc'[p] # "pf_pay") =>
                /\ payments[loc[p].payId].transactionId = loc[p].ref
                /\ payments' = [payments EXCEPT ![loc[p].payId].status = "failed"]
                /\ UNCHANGED <<shop, intents>>
                /\ pc'[p] = "done" /\ loc'[p].kind = "ok"]_vars

\* C25 witness: a "payment failed" notification has been acknowledged, its
\* payment is failed and the payment's order is still pending.
C25_Witness ==
    /\ pc["r1"] = "done" /\ loc["r1"].op = "paymentFailed" /\ loc["r1"].kind = "ok"
    /\ \E k \in 1..Len(payments) :
          /\ payments[k].transactionId = loc["r1"].ref
          /\ payments[k].status = "failed"
          /\ orders[payments[k].orderId].status = "pending"

\* C26: a "charge refunded" notification reads without writing and goes on to
\* its writes exactly when a completed Payment carries its reference;
\* otherwise it is acknowledged with nothing changed.  Its first write sets
\* that Payment to refunded and nothing else, and only when the refund is
\* total a second write sets the payment's order to refunded and nothing
\* else; stock is never changed.
C26_ChargeRefunded ==
    [][\A p \in Procs :
          /\ (/\ pc[p] = "idle" /\ pc'[p] # "idle"
              /\ loc'[p].op = "chargeRefunded" /\ loc'[p].sigOk) =>
                LET match == {k \in 1..Len(payments) :
                                 /\ payments[k].transactionId = loc'[p].ref
                                 /\ payments[k].status = "completed"}
                IN  /\ UNCHANGED db
                    /\ match = {} => pc'[p] = "done" /\ loc'[p].kind = "ok"
                    /\ match # {} => pc'[p] = "wr_pay" /\ loc'[p].payId \in match
          /\ (pc[p] = "wr_pay" /\ pc'[p] # "wr_pay") =>
                /\ payments' = [payments EXCEPT ![loc[p].payId].status = "refunded"]
                /\ UNCHANGED <<shop, intents>>
                /\ IF loc[p].full THEN pc'[p] = "wr_order"
                   ELSE pc'[p] = "done" /\ loc'[p].kind = "ok"
          /\ (pc[p] = "wr_order" /\ pc'[p] # "wr_order") =>
                /\ orders' = [orders EXCEPT
                                 ![payments[loc[p].payId].orderId].status = "refunded"]
                /\ UNCHANGED <<stock, price, cart, orderItems, payments, intents>>
                /\ pc'[p] = "done" /\ loc'[p].kind = "ok"]_vars

\* C26 witness: a notification of a total refund has been acknowledged; the
\* payment and its order are refunded and the stock taken by the order has
\* not come back.
C26_Witness ==
    /\ pc["r1"] = "done" /\ loc["r1"].op = "chargeRefunded" /\ loc["r1"].kind = "ok"
    /\ \E k \in 1..Len(payments) :
          /\ payments[k].transactionId = loc["r1"].ref
          /\ payments[k].status = "refunded"
          /\ orders[payments[k].orderId].status = "refunded"
    /\ stock["A"] < InitStock["A"]

\* C27: a notification with a signature that verifies and a type other than
\* payment succeeded, payment failed and charge refunded is acknowledged
\* without error, and no row of any table changes.
C27_OtherEventsAcknowledged ==
    [][\A p \in Procs :
          (/\ pc[p] = "idle" /\ pc'[p] # "idle"
           /\ loc'[p].op \in {"charge.succeeded", "customer.created"}
           /\ loc'[p].sigOk)
              => /\ pc'[p] = "done"
                 /\ loc'[p].kind = "ok"
                 /\ UNCHANGED db]_vars

\* C28: a failed outbound gateway call leaves local state unchanged.  When
\* createPaymentIntent reaches the gateway (the order is the caller's and not
\* cancelled, no completed payment exists) and the gateway fails, the request
\* ends with the gateway's error, no Payment row is created and the order is as
\* it was; when refundPayment reaches the gateway (a completed card payment)
\* and the gateway fails, the payment stays completed and the order's status
\* is as it was.
C28_ReachesGateway(r) ==
    \/ /\ r.op = "createPaymentIntent"
       /\ PayableOrder(r.orderId, r.userId)
       /\ ~HasPayment(r.orderId, {"completed"})
    \/ /\ r.op = "refundPayment"
       /\ r.payId \in 1..Len(payments)
       /\ payments[r.payId].status = "completed"
       /\ payments[r.payId].paymentMethod = "credit_card"
C28_FailedCall(p) ==
    (/\ pc[p] = "idle"
     /\ pc'[p] # "idle"
     /\ loc'[p].op \in {"createPaymentIntent", "refundPayment"}
     /\ ~loc'[p].gatewayOk
     /\ C28_ReachesGateway(loc'[p]))
    => /\ pc'[p] = "done"
       /\ loc'[p].kind = "GatewayError"
       /\ UNCHANGED <<shop, payments>>
C28_GatewayFailureKeepsState == [][\A p \in Procs : C28_FailedCall(p)]_vars
\* A refund the gateway refused: the payment is still completed and its order
\* is not refunded.
C28_Witness ==
    /\ pc["r1"] = "done"
    /\ loc["r1"].op = "refundPayment"
    /\ loc["r1"].kind = "GatewayError"
    /\ payments[loc["r1"].payId].status = "completed"
    /\ orders[payments[loc["r1"].payId].orderId].status # "refunded"
\* Card initiation the gateway refused: no Payment row exists.
C28_WitnessIntent ==
    /\ pc["r1"] = "done"
    /\ loc["r1"].op = "createPaymentIntent"
    /\ loc["r1"].kind = "GatewayError"
    /\ Len(payments) = 0

\* C29: the confirmation notification of createOrder is non-blocking.  Whether
\* or not the mail is sent, the step that sends it leaves the order, its items,
\* the stock and the emptied cart as they are, and createOrder answers with
\* the created order.
C29_MailStep(p) ==
    (pc[p] = "co_mail" /\ pc'[p] = "done")
    => /\ UNCHANGED db
       /\ loc'[p].kind = "ok"
       /\ loc'[p].orderId = loc[p].orderId
C29_NotificationNonBlocking == [][\A p \in Procs : C29_MailStep(p)]_vars

\* C30: external transaction references are unique among payments.  In every
\* state no two Payment rows, of the same order or of different orders, carry
\* the same transaction reference (0 stands for no reference), so a gateway
\* notification for a reference identifies at most one Payment.
C30_UniqueReferences ==
    \A j, k \in 1..Len(payments) :
        (j # k /\ payments[j].transactionId # 0)
        => payments[j].transactionId # payments[k].transactionId

====
